---- MODULE Spec2Model ----
(***************************************************************************)
(* A model of the lexical analyzer: the Tokenizer (src/src/tokenizer.rs), *)
(* the LanguageDefinition (src/src/langdef.rs) and the Composer            *)
(* (src/src/composer.rs).  Characters are one-character strings, a String *)
(* is a sequence of characters, a Vec is a sequence.                       *)
(***************************************************************************)
EXTENDS Integers, Sequences, FiniteSets, TLC

VARIABLES pc, langdef, document, tok, result, input, comp, composed

vars == <<pc, langdef, document, tok, result, input, comp, composed>>

(***************************************************************************)
(* Bounds of the model.                                                    *)
(***************************************************************************)
MaxDocLen == 3
MaxBodyLen == 2
MaxStreamLen == 5
MaxPunctLen == 4

(***************************************************************************)
(* Option values and the three-valued evaluation of a condition that may  *)
(* unwrap an Option: "true", "false", or "panic" when unwrap() is reached  *)
(* on None.  And3 is Rust's short-circuit &&.                              *)
(***************************************************************************)
NONE == "None"

is_some(o) == o # NONE

is_none(o) == o = NONE

B3(b) == IF b THEN "true" ELSE "false"

And3(a, b) == IF a = "true" THEN b ELSE a

unwrap_eq(o, v) == IF o = NONE THEN "panic" ELSE B3(o = v)

(***************************************************************************)
(* Strings.                                                                *)
(***************************************************************************)
WhiteSpace == {" ", "\n", "\r", "\t", "\f"}

RECURSIVE trim_start(_)
trim_start(s) ==
    IF s # <<>> /\ Head(s) \in WhiteSpace THEN trim_start(Tail(s)) ELSE s

RECURSIVE trim_end(_)
trim_end(s) ==
    IF s # <<>> /\ s[Len(s)] \in WhiteSpace
    THEN trim_end(SubSeq(s, 1, Len(s) - 1))
    ELSE s

trim(s) == trim_end(trim_start(s))

Digits == {"0", "1", "2", "3", "4", "5", "6", "7", "8", "9"}

IsDigits(s) == Len(s) > 0 /\ \A k \in 1..Len(s) : s[k] \in Digits

\* The regular expression ^([0-9]+(\.[0-9]+)?|true|false|null)$
regex_literal(s) ==
    \/ IsDigits(s)
    \/ \E d \in 1..Len(s) :
          /\ s[d] = "."
          /\ IsDigits(SubSeq(s, 1, d - 1))
          /\ IsDigits(SubSeq(s, d + 1, Len(s)))
    \/ s = <<"t", "r", "u", "e">>
    \/ s = <<"f", "a", "l", "s", "e">>
    \/ s = <<"n", "u", "l", "l">>

(***************************************************************************)
(* Tokens: the TokenType variants with their payload.  Punctuator(char)   *)
(* carries its character as a one-character text.                          *)
(***************************************************************************)
Keyword(s) == [type |-> "Keyword", text |-> s]

Identifier(s) == [type |-> "Identifier", text |-> s]

Punctuator(c) == [type |-> "Punctuator", text |-> <<c>>]

Operator(s) == [type |-> "Operator", text |-> s]

Literal(s) == [type |-> "Literal", text |-> s]

\* Option<TokenType>::None
NoToken == [type |-> NONE, text |-> <<>>]

(***************************************************************************)
(* LanguageDefinition                                                      *)
(***************************************************************************)
LanguageDefinition_new(keywords) ==
    [keywords |-> keywords,
     statement_terminator |-> Punctuator(";"),
     block_opener |-> Punctuator("{"),
     block_closer |-> Punctuator("}")]

\* Mutant: a word that begins with a keyword counts as that keyword.
has_keyword_by_prefix(ld, keyword) ==
    \E k \in 1..Len(ld.keywords) :
        /\ Len(ld.keywords[k]) <= Len(keyword)
        /\ SubSeq(keyword, 1, Len(ld.keywords[k])) = ld.keywords[k]

has_keyword(ld, keyword) ==
    \E k \in 1..Len(ld.keywords) : ld.keywords[k] = keyword

default_langdef ==
    LanguageDefinition_new(<<
        <<"i", "f">>,
        <<"m", "a", "t", "c", "h">>,
        <<"e", "l", "s", "e">>,
        <<"l", "e", "t">> >>)

(***************************************************************************)
(* Tokenizer                                                               *)
(***************************************************************************)
\* Mutant: keyword membership is asked before the literal pattern.
parse_token_type_keyword_first(ld, buffer) ==
    IF has_keyword(ld, buffer) THEN Keyword(buffer)
    ELSE IF regex_literal(trim(buffer)) THEN Literal(buffer)
    ELSE IF buffer = <<"=">> \/ buffer = <<"=", "=">> THEN Operator(buffer)
    ELSE IF trim(buffer) = <<>> THEN NoToken
    ELSE Identifier(buffer)

\* Mutant: a buffer that holds `=` anywhere is an Operator.
parse_token_type_eq_anywhere(ld, buffer) ==
    IF regex_literal(trim(buffer)) THEN Literal(buffer)
    ELSE IF has_keyword(ld, buffer) THEN Keyword(buffer)
    ELSE IF \E k \in 1..Len(buffer) : buffer[k] = "=" THEN Operator(buffer)
    ELSE IF trim(buffer) = <<>> THEN NoToken
    ELSE Identifier(buffer)

parse_token_type(ld, buffer) ==
    IF regex_literal(trim(buffer)) THEN Literal(buffer)
    ELSE IF has_keyword(ld, buffer) THEN Keyword(buffer)
    ELSE IF buffer = <<"=">> \/ buffer = <<"=", "=">> THEN Operator(buffer)
    ELSE IF trim(buffer) = <<>> THEN NoToken
    ELSE Identifier(buffer)

\* The locals stream and buffer of tokenize are fields of the record t.
add_to_stream(ld, t) ==
    LET output == parse_token_type(ld, t.buffer)
    IN  [t EXCEPT !.stream = IF output # NoToken THEN Append(@, output) ELSE @,
                  !.buffer = <<>>]

PunctuatorChars == {";", "{", "}", "(", ")", "[", "]"}

OperatorChars == {"+", "-", "/", "*", "%"}

\* Mutant: the operator is emitted before the buffer is flushed.
context_none_operator_first(ld, e, t) ==
    IF e \in PunctuatorChars
        THEN [add_to_stream(ld, t) EXCEPT !.stream = Append(@, Punctuator(e))]
    ELSE IF e \in OperatorChars
        THEN add_to_stream(ld, [t EXCEPT !.stream = Append(@, Operator(<<e>>))])
    ELSE IF e = "#" THEN [t EXCEPT !.context = "Comment"]
    ELSE IF e = "\"" THEN [t EXCEPT !.context = "Quotes"]
    ELSE IF e \in {" ", "\n", "\r"} THEN add_to_stream(ld, t)
    ELSE [t EXCEPT !.buffer = Append(@, e)]

\* Mutant: `#` flushes the buffer before it opens the comment.
context_none_comment_flushes(ld, e, t) ==
    IF e \in PunctuatorChars
        THEN [add_to_stream(ld, t) EXCEPT !.stream = Append(@, Punctuator(e))]
    ELSE IF e \in OperatorChars
        THEN [add_to_stream(ld, t) EXCEPT !.stream = Append(@, Operator(<<e>>))]
    ELSE IF e = "#" THEN [add_to_stream(ld, t) EXCEPT !.context = "Comment"]
    ELSE IF e = "\"" THEN [t EXCEPT !.context = "Quotes"]
    ELSE IF e \in {" ", "\n", "\r"} THEN add_to_stream(ld, t)
    ELSE [t EXCEPT !.buffer = Append(@, e)]

\* Mutant: the opening quote flushes the buffer.
context_none_quote_flushes(ld, e, t) ==
    IF e \in PunctuatorChars
        THEN [add_to_stream(ld, t) EXCEPT !.stream = Append(@, Punctuator(e))]
    ELSE IF e \in OperatorChars
        THEN [add_to_stream(ld, t) EXCEPT !.stream = Append(@, Operator(<<e>>))]
    ELSE IF e = "#" THEN [t EXCEPT !.context = "Comment"]
    ELSE IF e = "\"" THEN [add_to_stream(ld, t) EXCEPT !.context = "Quotes"]
    ELSE IF e \in {" ", "\n", "\r"} THEN add_to_stream(ld, t)
    ELSE [t EXCEPT !.buffer = Append(@, e)]

context_none(ld, e, t) ==
    IF e \in PunctuatorChars
        THEN [add_to_stream(ld, t) EXCEPT !.stream = Append(@, Punctuator(e))]
    ELSE IF e \in OperatorChars
        THEN [add_to_stream(ld, t) EXCEPT !.stream = Append(@, Operator(<<e>>))]
    ELSE IF e = "#" THEN [t EXCEPT !.context = "Comment"]
    ELSE IF e = "\"" THEN [t EXCEPT !.context = "Quotes"]
    ELSE IF e \in {" ", "\n", "\r"} THEN add_to_stream(ld, t)
    ELSE [t EXCEPT !.buffer = Append(@, e)]

context_quotes(char, t) ==
    IF char = "\""
        THEN [t EXCEPT !.stream = Append(@, Literal(t.buffer)),
                       !.buffer = <<>>,
                       !.context = NONE]
    ELSE [t EXCEPT !.buffer = Append(@, char)]

\* The state of tokenize before its loop.
tokenize_begin ==
    [stream |-> <<>>, context |-> NONE, buffer |-> <<>>, prev |-> NONE, i |-> 0]

\* chars.clone().nth(i + 1).unwrap_or(' ')
peek_at(doc, i) == IF i + 2 <= Len(doc) THEN doc[i + 2] ELSE " "

is_eol_of(e) == e = "\n" \/ e = "\r"

\* The conditions of the if / else-if chain of the loop body, in order.
\* Mutant: `/*` opens a docblock in every context.
cond_enter_docblock_in_any_context(t, e, peek) ==
    And3(B3(e = "/"), B3(peek = "*"))

cond_enter_docblock(t, e, peek) ==
    And3(B3(is_none(t.context)), And3(B3(e = "/"), B3(peek = "*")))

\* Mutant: the condition unwraps context and prev without asking is_some().
cond_leave_docblock_unguarded(t, e, peek) ==
    And3(unwrap_eq(t.context, "DocBlock"),
    And3(B3(e = "/"), unwrap_eq(t.prev, "*")))

cond_leave_docblock(t, e, peek) ==
    And3(B3(is_some(t.context)),
    And3(B3(is_some(t.prev)),
    And3(unwrap_eq(t.context, "DocBlock"),
    And3(B3(e = "/"), unwrap_eq(t.prev, "*")))))

cond_enter_comment(t, e, peek) ==
    And3(B3(is_none(t.context)), And3(B3(e = "/"), B3(peek = "/")))

cond_quotes(t, e, peek) ==
    And3(B3(is_some(t.context)), unwrap_eq(t.context, "Quotes"))

cond_docblock(t, e, peek) ==
    And3(B3(is_some(t.context)), unwrap_eq(t.context, "DocBlock"))

cond_leave_comment(t, e, peek) ==
    And3(B3(is_some(t.context)),
    And3(unwrap_eq(t.context, "Comment"), B3(is_eol_of(e))))

cond_none(t, e, peek) == B3(is_none(t.context))

chain(t, e, peek) ==
    << cond_enter_docblock(t, e, peek),
       cond_leave_docblock(t, e, peek),
       cond_enter_comment(t, e, peek),
       cond_quotes(t, e, peek),
       cond_docblock(t, e, peek),
       cond_leave_comment(t, e, peek),
       cond_none(t, e, peek) >>

\* The branch of the chain that is taken: the first condition that does not
\* evaluate to false (0 when every condition is false), and whether taking
\* it is a panic.
branch(t, e, peek) ==
    LET c == chain(t, e, peek)
        hit == {k \in 1..Len(c) : c[k] # "false"}
    IN  IF hit = {} THEN 0 ELSE CHOOSE k \in hit : \A j \in hit : k <= j

panics(t, e, peek) ==
    LET k == branch(t, e, peek)
    IN  k # 0 /\ chain(t, e, peek)[k] = "panic"

\* Mutant: leaving a docblock clears the buffer.
loop_body_leave_clears_buffer(ld, t, e, peek) ==
    LET k == branch(t, e, peek)
        u == CASE k = 1 -> [t EXCEPT !.context = "DocBlock"]
               [] k = 2 -> [t EXCEPT !.context = NONE, !.buffer = <<>>]
               [] k = 3 -> [t EXCEPT !.context = "Comment"]
               [] k = 4 -> context_quotes(e, t)
               [] k = 5 -> t
               [] k = 6 -> [t EXCEPT !.context = NONE]
               [] k = 7 -> context_none(ld, e, t)
               [] OTHER -> t
    IN  [u EXCEPT !.prev = e, !.i = t.i + 1]

\* Mutant: the `*` of the opener `/*` is not remembered as the previous
\* character, so that it closes no docblock.
loop_body_opener_star_closes_nothing(ld, t, e, peek) ==
    LET k == branch(t, e, peek)
        u == CASE k = 1 -> [t EXCEPT !.context = "DocBlock"]
               [] k = 2 -> [t EXCEPT !.context = NONE]
               [] k = 3 -> [t EXCEPT !.context = "Comment"]
               [] k = 4 -> context_quotes(e, t)
               [] k = 5 -> t
               [] k = 6 -> [t EXCEPT !.context = NONE]
               [] k = 7 -> context_none(ld, e, t)
               [] OTHER -> t
    IN  [u EXCEPT !.prev = IF t.context = "DocBlock" /\ t.prev = "/" /\ e = "*"
                               THEN " " ELSE e,
                  !.i = t.i + 1]

\* One iteration of the loop of tokenize, without a panic.
loop_body(ld, t, e, peek) ==
    LET k == branch(t, e, peek)
        u == CASE k = 1 -> [t EXCEPT !.context = "DocBlock"]
               [] k = 2 -> [t EXCEPT !.context = NONE]
               [] k = 3 -> [t EXCEPT !.context = "Comment"]
               [] k = 4 -> context_quotes(e, t)
               [] k = 5 -> t
               [] k = 6 -> [t EXCEPT !.context = NONE]
               [] k = 7 -> context_none(ld, e, t)
               [] OTHER -> t
    IN  [u EXCEPT !.prev = e, !.i = t.i + 1]

\* Mutant: the residue is not flushed.
flush_residue_never(ld, t) == t

\* Mutant: the residue of an open string is emitted as a string Literal.
flush_residue_string_literal(ld, t) ==
    IF t.buffer = <<>> THEN t
    ELSE IF t.context = "Quotes"
        THEN [t EXCEPT !.stream = Append(@, Literal(t.buffer)), !.buffer = <<>>]
    ELSE add_to_stream(ld, t)

\* The residue flush after the loop.
flush_residue(ld, t) ==
    IF t.buffer # <<>> THEN add_to_stream(ld, t) ELSE t

\* tokenize as a function of its arguments: the Result it returns.
RECURSIVE tokenize_from(_, _, _)
tokenize_from(ld, doc, t) ==
    IF t.i >= Len(doc)
        THEN [kind |-> "Ok", stream |-> flush_residue(ld, t).stream]
    ELSE IF panics(t, doc[t.i + 1], peek_at(doc, t.i))
        THEN [kind |-> "panic", stream |-> <<>>]
    ELSE tokenize_from(ld, doc,
                       loop_body(ld, t, doc[t.i + 1], peek_at(doc, t.i)))

tokenize(ld, doc) == tokenize_from(ld, doc, tokenize_begin)

(***************************************************************************)
(* Fragments: the three structs that implement the Fragment trait.  A     *)
(* ComposerContext Closure(b) is the name of its BracketType b.            *)
(***************************************************************************)
Statement(token_stream) == [type |-> "statement", token_stream |-> token_stream]

SingleToken(token) == [type |-> "single_token", token |-> token]

Encapsulation(context, composition) ==
    [type |-> "block", context |-> context, composition |-> composition]

(***************************************************************************)
(* Composer                                                                *)
(***************************************************************************)
Openers == {Punctuator("{"), Punctuator("("), Punctuator("[")}

Closers == {Punctuator("}"), Punctuator(")"), Punctuator("]")}

\* "panic" is the `Not a closure type` arm.
get_context(punctuator) ==
    IF punctuator \in {Punctuator("{"), Punctuator("}")} THEN "Curly"
    ELSE IF punctuator \in {Punctuator("("), Punctuator(")")} THEN "Parenthetical"
    ELSE IF punctuator \in {Punctuator("["), Punctuator("]")} THEN "Square"
    ELSE "panic"

create_fragment(stream) ==
    IF Len(stream) = 1 THEN SingleToken(stream[1]) ELSE Statement(stream)

\* Mutant: the fragment is added also when the buffer is empty.
add_stream_unguarded(c) ==
    [c EXCEPT !.composition = Append(@, create_fragment(c.buffer)),
              !.buffer = <<>>]

\* The locals composition and buffer of process are fields of the record c.
add_stream(c) ==
    [c EXCEPT !.composition =
                  IF Len(c.buffer) > 0 THEN Append(@, create_fragment(c.buffer)) ELSE @,
              !.buffer = <<>>]

\* The state of process before its loop; pos counts the tokens consumed.
process_begin ==
    [composition |-> <<>>, context |-> NONE, buffer |-> <<>>,
     indentations |-> <<>>, pos |-> 0, status |-> "ok"]

\* Mutant: with no open context every punctuator that is not a closing
\* bracket opens a context.
arm_any_punctuator_opens(token, context) ==
    IF token = Punctuator(";") /\ context = NONE THEN 1
    ELSE IF token = Punctuator(";") THEN 2
    ELSE IF token.type = "Punctuator" /\ token \notin Closers /\ context = NONE
        THEN 3
    ELSE IF token \in Openers THEN 4
    ELSE IF token \in Closers /\ context # NONE THEN 5
    ELSE 6

\* The arm of the match that a (token, context) pair selects, 1..6 in order.
arm(token, context) ==
    IF token = Punctuator(";") /\ context = NONE THEN 1
    ELSE IF token = Punctuator(";") THEN 2
    ELSE IF token \in Openers /\ context = NONE THEN 3
    ELSE IF token \in Openers THEN 4
    ELSE IF token \in Closers /\ context # NONE THEN 5
    ELSE 6

RECURSIVE process(_, _)

\* Mutant: the buffer is not reset after the Encapsulation is added.
add_encapsulation_keeps_buffer(ld, c) ==
    LET inner == process(ld, c.buffer)
    IN  IF c.context = NONE \/ inner.status = "panic"
            THEN [c EXCEPT !.status = "panic"]
        ELSE [c EXCEPT !.composition =
                           Append(@, Encapsulation(c.context, inner.composition)),
                       !.context = NONE]

\* Mutant: the body of a bracketed region is composed only when the
\* language definition has keywords.
add_encapsulation_by_langdef(ld, c) ==
    LET inner == process(ld, c.buffer)
    IN  IF c.context = NONE \/ inner.status = "panic"
            THEN [c EXCEPT !.status = "panic"]
        ELSE [c EXCEPT !.composition =
                           Append(@, Encapsulation(c.context,
                               IF ld.keywords = <<>> THEN <<>>
                               ELSE inner.composition)),
                       !.buffer = <<>>,
                       !.context = NONE]

add_encapsulation(ld, c) ==
    LET inner == process(ld, c.buffer)
    IN  IF c.context = NONE \/ inner.status = "panic"
            THEN [c EXCEPT !.status = "panic"]
        ELSE [c EXCEPT !.composition =
                           Append(@, Encapsulation(c.context, inner.composition)),
                       !.buffer = <<>>,
                       !.context = NONE]

\* Mutant: the buffer is not flushed when a context opens.
open_context_without_flush(c, token) ==
    LET k == get_context(token)
    IN  IF k = "panic" THEN [c EXCEPT !.status = "panic"]
        ELSE [c EXCEPT !.context = k]

open_context(c, token) ==
    LET d == add_stream(c)
        k == get_context(token)
    IN  IF k = "panic" THEN [d EXCEPT !.status = "panic"]
        ELSE [d EXCEPT !.context = k]

\* Mutant: the depth stack takes the kind of the nested bracket.
nested_open_pushes_own_kind(c, token) ==
    [c EXCEPT !.buffer = Append(@, token),
              !.indentations = Append(@, get_context(token))]

nested_open(c, token) ==
    [c EXCEPT !.buffer = Append(@, token),
              !.indentations = Append(@, c.context)]

\* Mutant: every closing bracket closes the context, whatever the depth.
close_bracket_at_any_depth(ld, c, token) == add_encapsulation(ld, c)

\* Mutant: a closing bracket closes the context only if its shape is that of
\* the bracket that opened it.
close_bracket_by_shape(ld, c, token) ==
    IF Len(c.indentations) > 0
        THEN [c EXCEPT !.buffer = Append(@, token),
                       !.indentations = SubSeq(@, 1, Len(@) - 1)]
    ELSE IF get_context(token) = c.context THEN add_encapsulation(ld, c)
    ELSE [c EXCEPT !.buffer = Append(@, token)]

\* Mutant: the Encapsulation takes the bracket kind of the closing bracket.
close_bracket_kind_of_closer(ld, c, token) ==
    IF Len(c.indentations) > 0
        THEN [c EXCEPT !.buffer = Append(@, token),
                       !.indentations = SubSeq(@, 1, Len(@) - 1)]
    ELSE add_encapsulation(ld, [c EXCEPT !.context = get_context(token)])

close_bracket(ld, c, token) ==
    IF Len(c.indentations) > 0
        THEN [c EXCEPT !.buffer = Append(@, token),
                       !.indentations = SubSeq(@, 1, Len(@) - 1)]
    ELSE add_encapsulation(ld, c)

\* Mutant: the terminator flushes the buffer also while a context is open.
match_token_terminator_always_flushes(ld, c, token) ==
    LET a == arm(token, c.context)
        d == CASE a = 1 -> add_stream(c)
               [] a = 2 -> add_stream(c)
               [] a = 3 -> open_context(c, token)
               [] a = 4 -> nested_open(c, token)
               [] a = 5 -> close_bracket(ld, c, token)
               [] OTHER -> [c EXCEPT !.buffer = Append(@, token)]
    IN  [d EXCEPT !.pos = c.pos + 1]

\* One iteration of the loop of process.
match_token(ld, c, token) ==
    LET a == arm(token, c.context)
        d == CASE a = 1 -> add_stream(c)
               [] a = 2 -> [c EXCEPT !.buffer = Append(@, token)]
               [] a = 3 -> open_context(c, token)
               [] a = 4 -> nested_open(c, token)
               [] a = 5 -> close_bracket(ld, c, token)
               [] OTHER -> [c EXCEPT !.buffer = Append(@, token)]
    IN  [d EXCEPT !.pos = c.pos + 1]

\* Mutant: the residue is flushed only when no context is open.
flush_buffer_only_closed(c) ==
    IF Len(c.buffer) > 0 /\ c.context = NONE THEN add_stream(c) ELSE c

\* The residue flush after the loop.
flush_buffer(c) == IF Len(c.buffer) > 0 THEN add_stream(c) ELSE c

RECURSIVE process_from(_, _, _)
process_from(ld, stream, c) ==
    IF c.status = "panic" THEN c
    ELSE IF c.pos >= Len(stream) THEN flush_buffer(c)
    ELSE process_from(ld, stream, match_token(ld, c, stream[c.pos + 1]))

\* process as a function of its arguments: status "ok" and the Composition it
\* returns, or status "panic".
process(ld, stream) ==
    LET c == process_from(ld, stream, process_begin)
    IN  [status |-> c.status, composition |-> c.composition]

compose(ld, stream) == process(ld, stream)

\* The token sequences that one invocation of process hands to
\* add_encapsulation, and through it to a nested invocation of process:
\* the buffer at every closing bracket met with an empty depth stack.
RECURSIVE scan_to(_, _, _, _)
scan_to(ld, stream, c, n) ==
    IF c.pos >= n \/ c.status = "panic" THEN c
    ELSE scan_to(ld, stream, match_token(ld, c, stream[c.pos + 1]), n)

nested_invocations(ld, stream) ==
    {scan_to(ld, stream, process_begin, n - 1).buffer :
        n \in {m \in 1..Len(stream) :
                  LET c == scan_to(ld, stream, process_begin, m - 1)
                  IN  /\ c.status = "ok"
                      /\ arm(stream[m], c.context) = 5
                      /\ c.indentations = <<>>}}

\* The number of nested invocations of process below one invocation.
RECURSIVE recursion_depth(_, _)
recursion_depth(ld, stream) ==
    LET below == {recursion_depth(ld, b) : b \in nested_invocations(ld, stream)}
    IN  IF below = {} THEN 0
        ELSE 1 + (CHOOSE d \in below : \A e \in below : e <= d)

(***************************************************************************)
(* Inputs.                                                                 *)
(***************************************************************************)
SeqsUpTo(S, n) == UNION {[1..k -> S] : k \in 0..n}

\* Language definitions: no keywords; keywords spelled like an identifier, a
\* numeral and the assignment operator; the empty string as a keyword.
LangDefs ==
    {LanguageDefinition_new(<<>>),
     LanguageDefinition_new(<< <<"a">>, <<"1">>, <<"=">> >>),
     LanguageDefinition_new(<< <<>>, <<"a">> >>)}

\* The language definitions compose is called with.
ComposerLangDefs == {LanguageDefinition_new(<<>>), default_langdef}

\* Documents of buffer characters, white space, quotes and a punctuator.
ClassifyAlphabet == {"a", "1", ".", "=", " ", "\t", "\"", ";"}

\* Documents of the characters that change the context of the scan.
ScanAlphabet == {"a", "\"", "/", "*", "#", "\n", " "}

\* Documents with one comment: a docblock, a // comment or a # comment, each
\* closed, with a body that does not hold the closer.
CommentAlphabet == {"a", "\"", "/", "*", "#", ";"}

HasClose(s) == \E k \in 1..(Len(s) - 1) : s[k] = "*" /\ s[k + 1] = "/"

DocBlocks ==
    {<<"/", "*">> \o body \o <<"*", "/">> :
        body \in {b \in SeqsUpTo(CommentAlphabet, MaxBodyLen) :
                     ~HasClose(b \o <<"*">>)}}

LineComments ==
    {opener \o body \o <<"\n">> :
        opener \in {<<"/", "/">>, <<"#">>},
        body \in SeqsUpTo(CommentAlphabet, MaxBodyLen)}

CommentDocs ==
    {pre \o comment \o post :
        pre \in {<<>>, <<"a">>},
        comment \in DocBlocks \cup LineComments,
        post \in {<<>>, <<"b">>, <<"b", ";">>}}

\* Documents that are one string, closed or left open, of the characters
\* that act in context None.
QuoteAlphabet == {"\n", ";", "(", "+", "#", "/", "*"}

QuoteDocs ==
    {<<"\"">> \o body \o close :
        body \in SeqsUpTo(QuoteAlphabet, MaxBodyLen),
        close \in {<<>>, <<"\"">>}}

Docs ==
    SeqsUpTo(ClassifyAlphabet, MaxDocLen)
        \cup SeqsUpTo(ScanAlphabet, MaxDocLen)
        \cup CommentDocs
        \cup QuoteDocs

\* Documents tokenized with the keywords if, match, else, let: words that
\* are, begin with, or differ in case from the keyword `if`.
KeywordAlphabet == {"i", "f", "F", " "}

IffyDoc == <<"i", "f", "f", "y">>

\* Operands and operators, with and without white space between them.
OperatorAlphabet == {"1", "a", "+", "-", "%", " "}

\* The expression of the test operators.
OperatorsDoc ==
    <<"1", "0", "0", " ", "+", " ", "1", "0", "0", " ", "-", " ", "1",
      "0", " ", "*", " ", "2", " ", "/", " ", "2", " ", "%", " ",
      "1">>

\* An assignment and a sum written without white space.
AssignDoc == <<"a", "=", "b">>

SumDoc == <<"a", "+", "b">>

\* A string that is left open; text joined to a string; the docblock `/*/`
\* followed by text.
UnterminatedDoc == <<"\"", "a", "b", "c">>

QuoteJoinDoc == <<"a", "b", "\"", "c", "d", "\"">>

ShortDocBlockDoc == <<"/", "*", "/", "a">>

DefaultDocs ==
    SeqsUpTo(KeywordAlphabet, MaxDocLen)
        \cup SeqsUpTo(OperatorAlphabet, MaxDocLen)
        \cup {IffyDoc, OperatorsDoc, AssignDoc, SumDoc}
        \cup {UnterminatedDoc, QuoteJoinDoc, ShortDocBlockDoc}

\* Token streams handed to compose directly.
TokenAlphabet ==
    {Punctuator(";"), Punctuator("("), Punctuator("["), Punctuator(")"),
     Literal(<<"1">>), Keyword(<<"e", "l", "s", "e">>)}

\* Streams of punctuators only: a punctuator the Tokenizer never emits,
\* brackets of every shape, the terminator.
PunctuatorAlphabet ==
    {Punctuator(","), Punctuator("{"), Punctuator("]"), Punctuator(")"),
     Punctuator(";")}

TokenStreams ==
    SeqsUpTo(TokenAlphabet, MaxStreamLen)
        \cup SeqsUpTo(PunctuatorAlphabet, MaxPunctLen)

\* The expressions of the test composer_brackets.
BracketsParen ==
    <<"1", " ", "+", " ", "(", "2", " ", "+", " ", "(", "3", " ", "*", " ",
      "3", ")", ")", ";">>

BracketsMixed ==
    <<"1", " ", "+", " ", "(", "2", " ", "+", " ", "[", "3", " ", "*", " ",
      "3", "]", ")", ";">>

BracketsSquare ==
    <<"1", " ", "+", " ", "[", "2", " ", "+", " ", "[", "3", " ", "*", " ",
      "3", "]", "]", ";">>

\* A conditional with an else branch.
IfElseDoc ==
    <<"i", "f", " ", "(", "x", ")", " ", "{", " ", "a", ";", " ", "}", " ",
      "e", "l", "s", "e", " ", "{", " ", "b", ";", " ", "}">>

\* A document with a docblock, a string, a // comment and a # comment.
CommentsDoc ==
    <<"/", "*", " ", "d", " ", "*", "/", "\n", "l", "e", "t", " ", "x", " ",
      "=", " ", "\"", "J", " ", "D", "\"", ";", " ", "/", "/", " ", "c",
      "\n", "#", "c", "\n", "x", ";">>

TestDocs ==
    {BracketsParen, BracketsMixed, BracketsSquare, IfElseDoc, CommentsDoc}

(***************************************************************************)
(* The state machine.  pc is the position of the caller: in the loop of   *)
(* tokenize, holding its Result, in the loop of the outermost process,    *)
(* or holding the Composition.                                             *)
(***************************************************************************)
NoResult == [kind |-> NONE, stream |-> <<>>]

NoComposition == [status |-> NONE, composition |-> <<>>]

InitTok ==
    /\ pc = "tokenize"
    /\ \/ langdef \in LangDefs /\ document \in Docs
       \/ langdef = default_langdef /\ document \in DefaultDocs
    /\ tok = tokenize_begin
    /\ result = NoResult
    /\ input = <<>>
    /\ comp = process_begin
    /\ composed = NoComposition

InitComp ==
    /\ pc = "compose"
    /\ langdef \in ComposerLangDefs
    /\ document = <<>>
    /\ tok = tokenize_begin
    /\ result = NoResult
    /\ input \in TokenStreams
    /\ comp = process_begin
    /\ composed = NoComposition

Init ==
    /\ pc = "tokenize"
    /\ langdef = default_langdef
    /\ document \in TestDocs
    /\ tok = tokenize_begin
    /\ result = NoResult
    /\ input = <<>>
    /\ comp = process_begin
    /\ composed = NoComposition

\* The character under the cursor and the one after it.
cur == document[tok.i + 1]

peek == peek_at(document, tok.i)

\* An iteration of the loop of tokenize: the loop body, or the panic of an
\* unwrap() on None in the condition that decides the branch.
Iterate ==
    /\ IF panics(tok, cur, peek)
          THEN /\ result' = [kind |-> "panic", stream |-> <<>>]
               /\ pc' = "tokenized"
               /\ tok' = tok
          ELSE /\ tok' = loop_body(langdef, tok, cur, peek)
               /\ UNCHANGED <<pc, result>>
    /\ UNCHANGED <<langdef, document, input, comp, composed>>

\* The branches of the chain, one action each, in the order of the code.
EnterDocBlock ==
    /\ pc = "tokenize" /\ tok.i < Len(document)
    /\ branch(tok, cur, peek) = 1
    /\ Iterate

LeaveDocBlock ==
    /\ pc = "tokenize" /\ tok.i < Len(document)
    /\ branch(tok, cur, peek) = 2
    /\ Iterate

EnterComment ==
    /\ pc = "tokenize" /\ tok.i < Len(document)
    /\ branch(tok, cur, peek) = 3
    /\ Iterate

InQuotes ==
    /\ pc = "tokenize" /\ tok.i < Len(document)
    /\ branch(tok, cur, peek) = 4
    /\ Iterate

InDocBlock ==
    /\ pc = "tokenize" /\ tok.i < Len(document)
    /\ branch(tok, cur, peek) = 5
    /\ Iterate

LeaveComment ==
    /\ pc = "tokenize" /\ tok.i < Len(document)
    /\ branch(tok, cur, peek) = 6
    /\ Iterate

InNone ==
    /\ pc = "tokenize" /\ tok.i < Len(document)
    /\ branch(tok, cur, peek) = 7
    /\ Iterate

\* No branch is taken: a character of a comment that is not the end of line.
InComment ==
    /\ pc = "tokenize" /\ tok.i < Len(document)
    /\ branch(tok, cur, peek) = 0
    /\ Iterate

TokenizeReturn ==
    /\ pc = "tokenize"
    /\ tok.i >= Len(document)
    /\ tok' = flush_residue(langdef, tok)
    /\ result' = [kind |-> "Ok", stream |-> tok'.stream]
    /\ pc' = "tokenized"
    /\ UNCHANGED <<langdef, document, input, comp, composed>>

NextTok ==
    \/ EnterDocBlock
    \/ LeaveDocBlock
    \/ EnterComment
    \/ InQuotes
    \/ InDocBlock
    \/ LeaveComment
    \/ InNone
    \/ InComment
    \/ TokenizeReturn

\* Composer::compose(&langdef, &result.unwrap())
Compose ==
    /\ pc = "tokenized"
    /\ result.kind = "Ok"
    /\ input' = result.stream
    /\ comp' = process_begin
    /\ pc' = "compose"
    /\ UNCHANGED <<langdef, document, tok, result, composed>>

\* The token under the cursor of the outermost process.
token == input[comp.pos + 1]

\* An iteration of the loop of the outermost process; a panic below it ends
\* compose.
Match ==
    /\ comp' = match_token(langdef, comp, token)
    /\ IF comp'.status = "panic"
          THEN /\ composed' = [status |-> "panic", composition |-> <<>>]
               /\ pc' = "done"
          ELSE UNCHANGED <<pc, composed>>
    /\ UNCHANGED <<langdef, document, tok, result, input>>

\* The arms of the match, one action each, in the order of the code; the arm
\* of the closing brackets is two actions, one for each side of its if.
Terminate ==
    /\ pc = "compose" /\ comp.pos < Len(input)
    /\ arm(token, comp.context) = 1
    /\ Match

BufferTerminator ==
    /\ pc = "compose" /\ comp.pos < Len(input)
    /\ arm(token, comp.context) = 2
    /\ Match

OpenContext ==
    /\ pc = "compose" /\ comp.pos < Len(input)
    /\ arm(token, comp.context) = 3
    /\ Match

NestedOpen ==
    /\ pc = "compose" /\ comp.pos < Len(input)
    /\ arm(token, comp.context) = 4
    /\ Match

NestedClose ==
    /\ pc = "compose" /\ comp.pos < Len(input)
    /\ arm(token, comp.context) = 5
    /\ Len(comp.indentations) > 0
    /\ Match

CloseContext ==
    /\ pc = "compose" /\ comp.pos < Len(input)
    /\ arm(token, comp.context) = 5
    /\ Len(comp.indentations) = 0
    /\ Match

BufferToken ==
    /\ pc = "compose" /\ comp.pos < Len(input)
    /\ arm(token, comp.context) = 6
    /\ Match

ProcessReturn ==
    /\ pc = "compose"
    /\ comp.pos >= Len(input)
    /\ comp' = flush_buffer(comp)
    /\ composed' = [status |-> "ok", composition |-> comp'.composition]
    /\ pc' = "done"
    /\ UNCHANGED <<langdef, document, tok, result, input>>

NextComp ==
    \/ Terminate
    \/ BufferTerminator
    \/ OpenContext
    \/ NestedOpen
    \/ NestedClose
    \/ CloseContext
    \/ BufferToken
    \/ ProcessReturn

Next == NextTok \/ Compose \/ NextComp

SpecTok == InitTok /\ [][NextTok]_vars

SpecComp == InitComp /\ [][NextComp]_vars

Spec == Init /\ [][Next]_vars

(***************************************************************************)
(* Vocabulary of the properties.                                           *)
(***************************************************************************)
Range(q) == {q[k] : k \in 1..Len(q)}

Count(x, q) == Cardinality({k \in 1..Len(q) : q[k] = x})

IsBracket(t) == t \in Openers \cup Closers

\* A terminator or a bracket: the tokens the Composer consumes as structure.
IsStructural(t) == t = Punctuator(";") \/ IsBracket(t)

NotStructural(t) == ~IsStructural(t)

\* Openers minus closers among the first n tokens of q.
Depth(q, n) ==
    Cardinality({k \in 1..n : q[k] \in Openers})
        - Cardinality({k \in 1..n : q[k] \in Closers})

\* Balanced by depth: no closer without an open bracket, none left open.
Balanced(q) ==
    /\ \A n \in 1..Len(q) :
          Cardinality({k \in 1..n : q[k] \in Closers})
              <= Cardinality({k \in 1..n : q[k] \in Openers})
    /\ Cardinality({k \in 1..Len(q) : q[k] \in Closers})
          = Cardinality({k \in 1..Len(q) : q[k] \in Openers})

\* Terminator-complete: every run of tokens that are not punctuators is ended
\* by a terminator.
TerminatorComplete(q) ==
    \A k \in 1..Len(q) :
        q[k].type # "Punctuator" =>
            \E j \in (k + 1)..Len(q) :
                /\ q[j] = Punctuator(";")
                /\ \A m \in (k + 1)..(j - 1) : q[m].type # "Punctuator"

\* The tokens a tree holds, in order: those of its Statements and
\* SingleTokens at every nesting level.
RECURSIVE TreeTokens(_)
TreeTokens(composition) ==
    IF composition = <<>> THEN <<>>
    ELSE LET f == Head(composition)
             own == CASE f.type = "statement" -> f.token_stream
                      [] f.type = "single_token" -> <<f.token>>
                      [] OTHER -> TreeTokens(f.composition)
         IN  own \o TreeTokens(Tail(composition))

\* The fragments of a tree, at every nesting level.
RECURSIVE Fragments(_)
Fragments(composition) ==
    IF composition = <<>> THEN {}
    ELSE LET f == Head(composition)
         IN  {f} \cup (IF f.type = "block" THEN Fragments(f.composition) ELSE {})
                 \cup Fragments(Tail(composition))

\* The state of the outermost process after its first n tokens.
RECURSIVE ProcessedTo(_, _, _, _)
ProcessedTo(ld, stream, c, n) ==
    IF c.pos >= n \/ c.status = "panic" THEN c
    ELSE ProcessedTo(ld, stream, match_token(ld, c, stream[c.pos + 1]), n)

After(n) == ProcessedTo(langdef, input, process_begin, n)

(***************************************************************************)
(* C1.  As claimed: for a bracket-balanced, terminator-complete stream     *)
(* every input token is held exactly once by the Statements and            *)
(* SingleTokens of the composed tree.                                      *)
(***************************************************************************)
C1_EveryTokenOnce ==
    (pc = "done" /\ Balanced(input) /\ TerminatorComplete(input)) =>
        \A t \in Range(input) \cup Range(TreeTokens(composed.composition)) :
            Count(t, TreeTokens(composed.composition)) = Count(t, input)

(***************************************************************************)
(* C1, amended.  For a bracket-balanced stream the tokens held by the     *)
(* tree are exactly the input tokens that are neither a terminator nor a   *)
(* bracket, each once and in input order; terminators and brackets are     *)
(* consumed and held by no fragment.                                       *)
(***************************************************************************)
C1_EveryPlainTokenOnce ==
    (pc = "done" /\ Balanced(input)) =>
        /\ composed.status = "ok"
        /\ TreeTokens(composed.composition) = SelectSeq(input, NotStructural)

C1_Witness ==
    /\ pc = "done"
    /\ Balanced(input)
    /\ TerminatorComplete(input)
    /\ \E k \in 1..Len(composed.composition) :
          /\ composed.composition[k].type = "block"
          /\ composed.composition[k].composition # <<>>

SameTypeAgain(t) ==
    LET again == tokenize(langdef, t.text)
    IN  /\ again.kind = "Ok"
        /\ \E j \in 1..Len(again.stream) : again.stream[j].type = t.type

C3_Idempotent ==
    pc = "tokenized" =>
        \A k \in 1..Len(result.stream) : SameTypeAgain(result.stream[k])

(***************************************************************************)
(* C3, amended.  Every token with a non-empty text that is emitted while   *)
(* the scan is not in Quotes context (a punctuator, an arithmetic          *)
(* operator, a buffer flushed in context None, the residue flushed at the  *)
(* end of the input outside a string) is reproduced by tokenizing its text *)
(* alone: the result holds that token, with the same TokenType and text,   *)
(* and holds nothing else unless the empty string is a configured keyword. *)
(***************************************************************************)
ReproducedAlone(t) ==
    LET again == tokenize(langdef, t.text)
    IN  /\ again.kind = "Ok"
        /\ t \in Range(again.stream)
        /\ ~has_keyword(langdef, <<>>) => again.stream = <<t>>

C3_IdempotentOutsideQuotes ==
    [][(pc = "tokenize" /\ tok.context # "Quotes") =>
          \A k \in (Len(tok.stream) + 1)..Len(tok'.stream) :
              tok'.stream[k].text # <<>> => ReproducedAlone(tok'.stream[k])]_vars

C3_Witness ==
    /\ pc = "tokenized"
    /\ tok.context = NONE
    /\ \A d \in 1..Len(document) : document[d] # "\""
    /\ {result.stream[k].type : k \in 1..Len(result.stream)} =
          {"Keyword", "Operator", "Punctuator"}

(***************************************************************************)
(* C8.  A comment that opens the document contributes no token: the token  *)
(* stream of the document is the token stream of the document with the     *)
(* comment removed, whatever the comment holds.  A docblock is the text    *)
(* from the opener to the first closer after it; a // or # comment runs to *)
(* the end of its line.  (Stated for language definitions without the      *)
(* empty keyword, where an empty flush emits nothing.)                     *)
(***************************************************************************)
IsDocBlockText(c) ==
    /\ Len(c) >= 4
    /\ c[1] = "/" /\ c[2] = "*"
    /\ c[Len(c) - 1] = "*" /\ c[Len(c)] = "/"
    /\ ~HasClose(SubSeq(c, 3, Len(c) - 1))

IsLineCommentText(c) ==
    /\ \/ Len(c) >= 2 /\ c[1] = "/" /\ c[2] = "/"
       \/ Len(c) >= 1 /\ c[1] = "#"
    /\ \A k \in 1..Len(c) : ~is_eol_of(c[k])

\* The first k characters of doc are one whole comment.
LeadingComment(doc, k) ==
    \/ IsDocBlockText(SubSeq(doc, 1, k))
    \/ /\ IsLineCommentText(SubSeq(doc, 1, k))
       /\ k = Len(doc) \/ is_eol_of(doc[k + 1])

C8_CommentYieldsNoToken ==
    (pc = "tokenized" /\ ~has_keyword(langdef, <<>>)) =>
        \A k \in 1..Len(document) :
            LeadingComment(document, k) =>
                result.stream =
                    tokenize(langdef, SubSeq(document, k + 1, Len(document))).stream

(***************************************************************************)
(* C10.  As claimed: every flush of the buffer emits by the priority       *)
(* Literal (the buffer is a numeral or true, false, null), Keyword (the    *)
(* buffer is a configured keyword), Operator (the buffer is = or ==),      *)
(* nothing (the buffer is empty), Identifier.                              *)
(***************************************************************************)
IsNumeral(s) ==
    \E d \in 1..(Len(s) + 1) :
        /\ \A k \in 1..Len(s) : k # d => s[k] \in Digits
        /\ d <= Len(s) => (s[d] = "." /\ 1 < d /\ d < Len(s))
        /\ Len(s) > 0

IsLiteralWord(s) ==
    s \in {<<"t", "r", "u", "e">>, <<"f", "a", "l", "s", "e">>,
           <<"n", "u", "l", "l">>}

KeywordSet(ld) == Range(ld.keywords)

\* The tokens a flush of buffer b appends, when `shown` is the text that is
\* matched against the literal pattern and tested for emptiness.
FlushedAs(ld, b, shown) ==
    CASE IsNumeral(shown) \/ IsLiteralWord(shown) -> <<Literal(b)>>
      [] ~(IsNumeral(shown) \/ IsLiteralWord(shown))
           /\ b \in KeywordSet(ld) -> <<Keyword(b)>>
      [] ~(IsNumeral(shown) \/ IsLiteralWord(shown))
           /\ b \notin KeywordSet(ld)
           /\ b \in {<<"=">>, <<"=", "=">>} -> <<Operator(b)>>
      [] OTHER -> IF shown = <<>> THEN <<>> ELSE <<Identifier(b)>>

\* The steps of the scan that flush the buffer, and the token of the
\* character that triggers the flush.
FlushDue ==
    /\ pc = "tokenize"
    /\ \/ tok.i >= Len(document) /\ tok.buffer # <<>>
       \/ /\ tok.i < Len(document)
          /\ tok.context = NONE
          /\ ~(cur = "/" /\ peek \in {"*", "/"})
          /\ cur \in PunctuatorChars \cup OperatorChars \cup {" ", "\n", "\r"}

Trigger ==
    IF tok.i >= Len(document) THEN <<>>
    ELSE IF cur \in PunctuatorChars THEN <<Punctuator(cur)>>
    ELSE IF cur \in OperatorChars THEN <<Operator(<<cur>>)>>
    ELSE <<>>

C10_FlushPriority ==
    [][FlushDue =>
          tok'.stream =
              tok.stream \o FlushedAs(langdef, tok.buffer, tok.buffer) \o Trigger]_vars

(***************************************************************************)
(* C10, amended.  The same priority, with the literal pattern and the      *)
(* emptiness test applied to the buffer with its leading and trailing      *)
(* white space removed: a buffer whose trimmed text is a numeral or true,  *)
(* false, null is a Literal that carries the untrimmed buffer; otherwise a *)
(* configured keyword is a Keyword; otherwise = or == is an Operator;      *)
(* otherwise an empty or all-white-space buffer gives no token; otherwise  *)
(* Identifier.                                                             *)
(***************************************************************************)
C10_FlushPriorityTrimmed ==
    [][FlushDue =>
          tok'.stream =
              tok.stream \o FlushedAs(langdef, tok.buffer, trim(tok.buffer))
                  \o Trigger]_vars

C10_Witness ==
    /\ pc = "tokenized"
    /\ \E k \in 1..Len(result.stream) :
          /\ result.stream[k].type = "Literal"
          /\ has_keyword(langdef, result.stream[k].text)
    /\ \E k \in 1..Len(result.stream) : result.stream[k].type = "Keyword"
    /\ \A d \in 1..Len(document) : document[d] # "\""

(***************************************************************************)
(* C4.  Tokenizing and composing `1 + (2 + (3 * 3));` yields exactly the   *)
(* Statement [Literal(1), Operator(+)] followed by one Parenthetical       *)
(* Encapsulation, whose body is the Statement [Literal(2), Operator(+)]    *)
(* followed by one Parenthetical Encapsulation, whose body is the          *)
(* Statement [Literal 3, Operator `*`, Literal 3].                         *)
(***************************************************************************)
C4_NestedParentheses ==
    (pc = "done" /\ document = BracketsParen) =>
        /\ composed.status = "ok"
        /\ composed.composition =
              << Statement(<<Literal(<<"1">>), Operator(<<"+">>)>>),
                 Encapsulation("Parenthetical",
                    << Statement(<<Literal(<<"2">>), Operator(<<"+">>)>>),
                       Encapsulation("Parenthetical",
                          << Statement(<<Literal(<<"3">>), Operator(<<"*">>),
                                         Literal(<<"3">>)>>) >>) >>) >>

C4_Witness == pc = "done" /\ document = BracketsParen /\ Len(input) = 12

(***************************************************************************)
(* C5.  Grouping is by bracket depth, not bracket shape: for a stream      *)
(* balanced by depth, replacing any opening bracket by any opening bracket *)
(* and any closing bracket by any closing bracket yields a tree that       *)
(* differs only in the bracket kinds of its Encapsulations.                *)
(***************************************************************************)
\* The streams that differ from q only in the shapes of its brackets.
RECURSIVE Reshaped(_)
Reshaped(q) ==
    IF q = <<>> THEN {<<>>}
    ELSE LET h == Head(q)
             alt == IF h \in Openers THEN Openers
                    ELSE IF h \in Closers THEN Closers
                    ELSE {h}
         IN  {<<a>> \o r : a \in alt, r \in Reshaped(Tail(q))}

\* A tree with the bracket kinds of its Encapsulations erased.
RECURSIVE Unkinded(_)
Unkinded(composition) ==
    IF composition = <<>> THEN <<>>
    ELSE LET f == Head(composition)
         IN  <<IF f.type = "block"
                   THEN Encapsulation("any", Unkinded(f.composition))
                   ELSE f>> \o Unkinded(Tail(composition))

C5_DepthNotShape ==
    (pc = "done" /\ Balanced(input)) =>
        \A q \in Reshaped(input) :
            LET other == compose(langdef, q)
            IN  /\ other.status = composed.status
                /\ Unkinded(other.composition) = Unkinded(composed.composition)

C5_Witness ==
    /\ pc = "done"
    /\ Balanced(input)
    /\ \E k \in 1..Len(composed.composition) :
          LET f == composed.composition[k]
          IN  /\ f.type = "block"
              /\ f.context = "Square"
              /\ \E j \in 1..Len(f.composition) :
                    /\ f.composition[j].type = "block"
                    /\ f.composition[j].context = "Parenthetical"

(***************************************************************************)
(* C6.  As claimed: for `if (x) { a; } else { b; }` the sibling directly   *)
(* after the first Encapsulation of the top-level Composition is the       *)
(* SingleToken Keyword("else"), directly followed by an Encapsulation.     *)
(***************************************************************************)
KeywordElse == Keyword(<<"e", "l", "s", "e">>)

\* The index of the first Encapsulation of a Composition, 0 when it has none.
FirstBlock(composition) ==
    LET blocks == {k \in 1..Len(composition) : composition[k].type = "block"}
    IN  IF blocks = {} THEN 0 ELSE CHOOSE k \in blocks : \A j \in blocks : k <= j

C6_ElseAfterFirstEncapsulation ==
    (pc = "done" /\ document = IfElseDoc) =>
        LET c == composed.composition
            k == FirstBlock(c)
        IN  /\ k > 0
            /\ Len(c) >= k + 2
            /\ c[k + 1] = SingleToken(KeywordElse)
            /\ c[k + 2].type = "block"

(***************************************************************************)
(* C6, amended.  For `if (x) { a; } else { b; }` the top-level Composition *)
(* is SingleToken Keyword("if"), the Parenthetical Encapsulation of `(x)`, *)
(* the Curly Encapsulation of `{ a; }`, SingleToken Keyword("else"), the   *)
(* Curly Encapsulation of `{ b; }`: the SingleToken Keyword("else") is the *)
(* sibling directly after the second Encapsulation (the first Curly one),  *)
(* and it is directly followed by a separate Encapsulation sibling.        *)
(***************************************************************************)
C6_ElseAfterFirstCurly ==
    (pc = "done" /\ document = IfElseDoc) =>
        composed.composition =
            << SingleToken(Keyword(<<"i", "f">>)),
               Encapsulation("Parenthetical", <<SingleToken(Identifier(<<"x">>))>>),
               Encapsulation("Curly", <<SingleToken(Identifier(<<"a">>))>>),
               SingleToken(KeywordElse),
               Encapsulation("Curly", <<SingleToken(Identifier(<<"b">>))>>) >>

C6_Witness ==
    /\ pc = "done"
    /\ document = IfElseDoc
    /\ KeywordElse \in Range(input)

(***************************************************************************)
(* C7.  When exactly one token that is neither a bracket nor a terminator  *)
(* lies between the closing bracket of one bracketed region at the top of  *)
(* a layer and the opening bracket of the next such region, the            *)
(* Composition of that layer holds three consecutive siblings: an          *)
(* Encapsulation, a SingleToken with that token, an Encapsulation.         *)
(***************************************************************************)
\* Token n closes the context that is open at the top of the layer.
ClosesRegion(n) ==
    /\ n \in 1..Len(input)
    /\ input[n] \in Closers
    /\ After(n - 1).context # NONE
    /\ After(n - 1).indentations = <<>>

\* Token n opens a context at the top of the layer, and a later token
\* closes it.
OpensRegion(n) ==
    /\ n \in 1..Len(input)
    /\ input[n] \in Openers
    /\ After(n - 1).context = NONE
    /\ \E j \in (n + 1)..Len(input) :
          /\ ClosesRegion(j)
          /\ \A m \in n..(j - 1) : After(m).context # NONE

C7_LoneTokenBetweenRegions ==
    (pc = "done" /\ composed.status = "ok") =>
        \A n \in 1..Len(input) :
            ( /\ ClosesRegion(n)
              /\ OpensRegion(n + 2)
              /\ ~IsStructural(input[n + 1]) ) =>
                LET c == composed.composition
                    k == Len(After(n).composition)
                IN  /\ Len(c) >= k + 2
                    /\ c[k].type = "block"
                    /\ c[k + 1] = SingleToken(input[n + 1])
                    /\ c[k + 2].type = "block"

C7_Witness ==
    /\ pc = "done"
    /\ \E n \in 1..Len(input) :
          /\ ClosesRegion(n)
          /\ OpensRegion(n + 2)
          /\ input[n + 1] = KeywordElse

(***************************************************************************)
(* C9.  In every tree that process has built, at every nesting level and   *)
(* for every token stream, a Statement holds at least 2 tokens and a       *)
(* SingleToken holds one token; a flush of an empty buffer adds no         *)
(* fragment.                                                               *)
(***************************************************************************)
AllTokens ==
    TokenAlphabet \cup PunctuatorAlphabet \cup Openers \cup Closers

FragmentSized(f) ==
    /\ f.type = "statement" => Len(f.token_stream) >= 2
    /\ f.type = "single_token" => f.token \in AllTokens

C9_FragmentSizes ==
    /\ \A f \in Fragments(comp.composition) : FragmentSized(f)
    /\ \A f \in Fragments(composed.composition) : FragmentSized(f)
    /\ (pc = "compose" /\ comp.buffer = <<>>) =>
          add_stream(comp).composition = comp.composition

C9_Witness ==
    /\ pc = "done"
    /\ ~Balanced(input)
    /\ \E f \in Fragments(composed.composition) : f.type = "statement"
    /\ \E f \in Fragments(composed.composition) : f.type = "single_token"
    /\ \E n \in 1..Len(input) :
          /\ input[n] = Punctuator(";")
          /\ After(n - 1).context = NONE
          /\ After(n - 1).buffer = <<>>

(***************************************************************************)
(* C11.  A token is a Keyword only if its text is exactly an element of    *)
(* the configured keyword set: has_keyword answers membership, also for    *)
(* words that begin with a keyword or differ from one in case, and with    *)
(* the keywords if, match, else, let the document `iffy` tokenizes to the  *)
(* single token Identifier("iffy").                                        *)
(***************************************************************************)
C11_KeywordExact ==
    /\ \A k \in 1..Len(tok.stream) :
          tok.stream[k].type = "Keyword" =>
              tok.stream[k].text \in KeywordSet(langdef)
    /\ has_keyword(langdef, tok.buffer) <=> tok.buffer \in KeywordSet(langdef)
    /\ (pc = "tokenized" /\ langdef = default_langdef /\ document = IffyDoc) =>
          result.stream = <<Identifier(IffyDoc)>>

C11_Witness ==
    /\ pc = "tokenized"
    /\ langdef = default_langdef
    /\ document = IffyDoc
    /\ result.kind = "Ok"

(***************************************************************************)
(* C12.  Every Encapsulation carries the bracket kind of the punctuator    *)
(* that opened its context, whatever closing bracket closed it: the kinds  *)
(* of the Encapsulations of a layer are, in order, the kinds of the        *)
(* opening brackets of the regions opened and closed at the top of that    *)
(* layer, and the tokens `(`, a, `]` give one Parenthetical Encapsulation. *)
(***************************************************************************)
KindOfOpener(t) ==
    CASE t = Punctuator("{") -> "Curly"
      [] t = Punctuator("(") -> "Parenthetical"
      [] t = Punctuator("[") -> "Square"

IsBlock(f) == f.type = "block"

\* The bracket kinds of the Encapsulations of one layer, in order.
KindsOf(composition) ==
    LET b == SelectSeq(composition, IsBlock)
    IN  [k \in 1..Len(b) |-> b[k].context]

\* The kinds of the opening brackets of the regions of the top layer.
OpenedKinds ==
    LET idx == SelectSeq([n \in 1..Len(input) |-> n], OpensRegion)
    IN  [k \in 1..Len(idx) |-> KindOfOpener(input[idx[k]])]

C12_KindOfOpener ==
    pc = "done" =>
        /\ composed.status = "ok"
        /\ KindsOf(composed.composition) = OpenedKinds
        /\ \A f \in Fragments(composed.composition) :
              IsBlock(f) => f.context \in {"Square", "Curly", "Parenthetical"}
        /\ compose(langdef, <<Punctuator("("), Identifier(<<"a">>),
                              Punctuator("]")>>).composition =
              <<Encapsulation("Parenthetical",
                              <<SingleToken(Identifier(<<"a">>))>>)>>

C12_Witness ==
    /\ pc = "done"
    /\ \E n \in 1..Len(input) :
          /\ OpensRegion(n)
          /\ input[n] = Punctuator("[")
          /\ \E j \in (n + 1)..Len(input) :
                /\ ClosesRegion(j)
                /\ input[j] = Punctuator(")")
                /\ \A m \in n..(j - 1) : After(m).context # NONE
    /\ \E k \in 1..Len(composed.composition) :
          /\ IsBlock(composed.composition[k])
          /\ composed.composition[k].context = "Square"

(***************************************************************************)
(* C13.  When the stream ends while a bracket context is open, compose     *)
(* raises no error and builds no Encapsulation for the unclosed region:    *)
(* the opening bracket is dropped and the tokens after it, nested brackets *)
(* and terminators included, are flushed verbatim as one trailing          *)
(* SingleToken or Statement (no fragment when no token follows the         *)
(* opening bracket).                                                       *)
(***************************************************************************)
OpenAtEnd == After(Len(input)).context # NONE

\* The opening bracket of the context that is open at the end.
Unclosed ==
    LET opened == {n \in 1..Len(input) :
                      input[n] \in Openers /\ After(n - 1).context = NONE}
    IN  CHOOSE n \in opened : \A m \in opened : m <= n

TrailingFragment(rest) ==
    IF rest = <<>> THEN <<>>
    ELSE IF Len(rest) = 1 THEN <<SingleToken(rest[1])>>
    ELSE <<Statement(rest)>>

C13_UnclosedFlushedVerbatim ==
    (pc = "done" /\ OpenAtEnd) =>
        LET rest == SubSeq(input, Unclosed + 1, Len(input))
        IN  /\ composed.status = "ok"
            /\ composed.composition =
                  After(Unclosed).composition \o TrailingFragment(rest)
            /\ Len(SelectSeq(composed.composition, IsBlock)) =
                  Len(SelectSeq(After(Unclosed - 1).composition, IsBlock))

C13_Witness ==
    /\ pc = "done"
    /\ OpenAtEnd
    /\ Unclosed > 1
    /\ LET rest == SubSeq(input, Unclosed + 1, Len(input))
       IN  /\ Punctuator(";") \in Range(rest)
           /\ Range(rest) \cap Openers # {}
           /\ Range(rest) \cap Closers # {}
           /\ composed.composition[Len(composed.composition)] = Statement(rest)

(***************************************************************************)
(* C14.  In Quotes context every character other than the quote is         *)
(* appended to the buffer, emits no token and leaves the context as it is; *)
(* the quote emits exactly one Literal with the buffer as its text (also   *)
(* an empty buffer), clears the buffer and returns to context None.        *)
(***************************************************************************)
C14_QuotesVerbatim ==
    [][(pc = "tokenize" /\ tok.i < Len(document) /\ tok.context = "Quotes") =>
          /\ pc' = "tokenize"
          /\ IF cur = "\""
                THEN /\ tok'.stream = Append(tok.stream, Literal(tok.buffer))
                     /\ tok'.buffer = <<>>
                     /\ tok'.context = NONE
                ELSE /\ tok'.stream = tok.stream
                     /\ tok'.buffer = Append(tok.buffer, cur)
                     /\ tok'.context = "Quotes"]_vars

C14_Witness ==
    /\ pc = "tokenized"
    /\ tok.context = NONE
    /\ \E k \in 1..Len(result.stream) :
          result.stream[k] = Literal(<<"/", "*">>)

(***************************************************************************)
(* C15.  In context None each of + - * % and each / that is not followed   *)
(* by * or / first flushes the buffer through the classification and then  *)
(* emits one Operator whose text is that character, with or without white  *)
(* space around it; `100 + 100 - 10 * 2 / 2 % 1` tokenizes to Literals and *)
(* one-character Operators in turn, in input order.                        *)
(***************************************************************************)
IsOperatorStep ==
    /\ pc = "tokenize"
    /\ tok.i < Len(document)
    /\ tok.context = NONE
    /\ cur \in {"+", "-", "*", "%", "/"}
    /\ ~(cur = "/" /\ peek \in {"*", "/"})

OperatorsStream ==
    << Literal(<<"1", "0", "0">>), Operator(<<"+">>),
       Literal(<<"1", "0", "0">>), Operator(<<"-">>),
       Literal(<<"1", "0">>), Operator(<<"*">>),
       Literal(<<"2">>), Operator(<<"/">>),
       Literal(<<"2">>), Operator(<<"%">>),
       Literal(<<"1">>) >>

C15_OperatorPerCharacter ==
    [][/\ IsOperatorStep =>
             /\ tok'.stream =
                   tok.stream
                       \o FlushedAs(langdef, tok.buffer, trim(tok.buffer))
                       \o <<Operator(<<cur>>)>>
             /\ tok'.buffer = <<>>
             /\ tok'.context = NONE
       /\ (pc' = "tokenized" /\ document = OperatorsDoc) =>
             result'.stream = OperatorsStream]_vars

C15_Witness ==
    /\ pc = "tokenized"
    /\ document = OperatorsDoc
    /\ Len(result.stream) = 11

(***************************************************************************)
(* C16.  `=` and `==` are recognized only when the buffer is flushed: a    *)
(* step of the scan emits an Operator whose text holds `=` exactly when it *)
(* flushes a buffer that is `=` or `==` and is not a configured keyword,   *)
(* and that Operator carries the buffer; `a=b` is the single token         *)
(* Identifier("a=b"), `a+b` is three tokens.                               *)
(***************************************************************************)
IsEqOperator(t) == t.type = "Operator" /\ "=" \in Range(t.text)

C16_EqualsAtFlushOnly ==
    [][pc = "tokenize" =>
          /\ (\E k \in (Len(tok.stream) + 1)..Len(tok'.stream) :
                  IsEqOperator(tok'.stream[k]))
                <=> ( /\ FlushDue
                      /\ tok.buffer \in {<<"=">>, <<"=", "=">>}
                      /\ tok.buffer \notin KeywordSet(langdef) )
          /\ \A k \in (Len(tok.stream) + 1)..Len(tok'.stream) :
                IsEqOperator(tok'.stream[k]) =>
                    tok'.stream[k] = Operator(tok.buffer)
          /\ (pc' = "tokenized" /\ document = AssignDoc) =>
                result'.stream = <<Identifier(AssignDoc)>>
          /\ (pc' = "tokenized" /\ document = SumDoc) =>
                result'.stream =
                    <<Identifier(<<"a">>), Operator(<<"+">>),
                      Identifier(<<"b">>)>>]_vars

C16_Witness ==
    /\ pc = "tokenized"
    /\ <<"=">> \notin KeywordSet(langdef)
    /\ Operator(<<"=", "=">>) \in Range(result.stream)
    /\ \E k \in 1..Len(result.stream) : result.stream[k].type # "Operator"

(***************************************************************************)
(* C17.  The result of compose does not depend on the LanguageDefinition:  *)
(* for every token stream, composing it under any other language           *)
(* definition (no keywords, other keywords, keywords that are tokens of    *)
(* the stream) gives the tree that was composed.                           *)
(***************************************************************************)
C17_LangDefIrrelevant ==
    pc = "done" =>
        \A ld \in LangDefs \cup ComposerLangDefs :
            compose(ld, input) = composed

C17_Witness ==
    /\ pc = "done"
    /\ langdef = default_langdef
    /\ KeywordElse \in Range(TreeTokens(composed.composition))
    /\ \E k \in 1..Len(composed.composition) :
          /\ IsBlock(composed.composition[k])
          /\ composed.composition[k].composition # <<>>

(***************************************************************************)
(* C18.  The `Not a closure type` arm of the mapping from punctuator to    *)
(* bracket kind is not reachable from compose: for every token stream,     *)
(* with punctuators that are no brackets, stray closing brackets and       *)
(* brackets left open, the mapping is applied to `{`, `(` or `[` only and  *)
(* compose returns a Composition.                                          *)
(***************************************************************************)
C18_NeverAborts ==
    /\ comp.status = "ok"
    /\ composed.status \in {NONE, "ok"}
    /\ pc = "done" => composed.status = "ok"
    /\ (pc = "compose" /\ comp.pos < Len(input) /\ arm(token, comp.context) = 3) =>
          /\ token \in Openers
          /\ get_context(token) # "panic"

C18_Witness ==
    /\ pc = "done"
    /\ composed.status = "ok"
    /\ Len(input) >= 3
    /\ input[1] \in Closers
    /\ Punctuator(",") \in Range(input)
    /\ After(Len(input)).context # NONE

(***************************************************************************)
(* C19.  As claimed: when the scan leaves DocBlock context (previous       *)
(* character `*`, current `/`) the buffer is discarded, so that text       *)
(* buffered before the opener yields no token and is not joined with the   *)
(* text after the docblock.  Stated for a closer whose `*` does not follow *)
(* a `/`, which is never the `*` of the opener.                            *)
(***************************************************************************)
LeavesDocBlock ==
    /\ pc = "tokenize"
    /\ tok.i < Len(document)
    /\ tok.context = "DocBlock"
    /\ tok.prev = "*"
    /\ cur = "/"

LeavesOnCloser ==
    /\ LeavesDocBlock
    /\ tok.i >= 2
    /\ document[tok.i - 1] # "/"

\* Text, an empty docblock, text.
JoinedDoc == <<"a", "/", "*", "*", "/", "b">>

C19_LeaveDiscardsBuffer ==
    [][/\ LeavesOnCloser =>
             /\ tok'.context = NONE
             /\ tok'.buffer = <<>>
             /\ tok'.stream = tok.stream
       /\ (pc' = "tokenized" /\ document = JoinedDoc) =>
             result'.stream = <<Identifier(<<"b">>)>>]_vars

(***************************************************************************)
(* C19, amended.  When the scan leaves DocBlock context the buffer is left *)
(* as it is, neither flushed nor discarded, and no token is emitted: text  *)
(* buffered before the opener stays buffered and is joined with the text   *)
(* after the docblock, so `a/**/b` is the single token Identifier("ab").   *)
(***************************************************************************)
C19_LeaveKeepsBuffer ==
    [][/\ LeavesDocBlock =>
             /\ tok'.context = NONE
             /\ tok'.buffer = tok.buffer
             /\ tok'.stream = tok.stream
       /\ (pc' = "tokenized" /\ document = JoinedDoc) =>
             result'.stream = <<Identifier(<<"a", "b">>)>>]_vars

C19_Witness ==
    /\ pc = "tokenized"
    /\ document = JoinedDoc
    /\ tok.context = NONE
    /\ Len(result.stream) = 1

(***************************************************************************)
(* C20.  A `;` seen with no open context flushes the buffer as a fragment  *)
(* and is itself dropped: it is never buffered and never part of the       *)
(* fragment.  A `;` seen while a context is open is appended to the buffer *)
(* like any other token and changes nothing else; it ends a statement only *)
(* when the region that holds it is composed: the tokens `(`, 1, `;`, 1,   *)
(* `)` give one Encapsulation of two SingleTokens.                         *)
(***************************************************************************)
TerminatorInRegion ==
    <<Punctuator("("), Literal(<<"1">>), Punctuator(";"), Literal(<<"1">>),
      Punctuator(")")>>

C20_TerminatorAtTopOfLayer ==
    [][/\ (pc = "compose" /\ comp.pos < Len(input) /\ token = Punctuator(";")) =>
             IF comp.context = NONE
                THEN /\ Punctuator(";") \notin Range(comp.buffer)
                     /\ comp'.composition =
                           comp.composition \o TrailingFragment(comp.buffer)
                     /\ comp'.buffer = <<>>
                     /\ comp'.context = NONE
                ELSE /\ comp'.buffer = Append(comp.buffer, Punctuator(";"))
                     /\ comp'.composition = comp.composition
                     /\ comp'.context = comp.context
                     /\ comp'.indentations = comp.indentations
       /\ (pc' = "done" /\ input = TerminatorInRegion) =>
             composed'.composition =
                 <<Encapsulation("Parenthetical",
                      <<SingleToken(Literal(<<"1">>)),
                        SingleToken(Literal(<<"1">>))>>)>>]_vars

C20_Witness ==
    /\ pc = "done"
    /\ input = TerminatorInRegion
    /\ composed.status = "ok"

(***************************************************************************)
(* C21.  At the end of the input a non-empty buffer is flushed once,       *)
(* through the classification of every other flush and whatever context    *)
(* is active: the return adds at most one token and empties the buffer,    *)
(* an empty buffer adds none, and the text of a string left open is        *)
(* classified by the ordinary rules: `"abc` ends as Identifier("abc").     *)
(***************************************************************************)
C21_ResidueFlushedOnce ==
    [][(pc = "tokenize" /\ tok.i >= Len(document)) =>
          /\ pc' = "tokenized"
          /\ result'.kind = "Ok"
          /\ result'.stream =
                tok.stream \o
                    (IF tok.buffer = <<>> THEN <<>>
                     ELSE FlushedAs(langdef, tok.buffer, trim(tok.buffer)))
          /\ Len(result'.stream) <= Len(tok.stream) + 1
          /\ tok'.buffer = <<>>
          /\ tok'.context = tok.context
          /\ document = UnterminatedDoc =>
                result'.stream = <<Identifier(<<"a", "b", "c">>)>>]_vars

C21_Witness ==
    /\ pc = "tokenized"
    /\ document = UnterminatedDoc
    /\ tok.context = "Quotes"
    /\ Len(result.stream) = 1

(***************************************************************************)
(* C22.  Comments and docblocks leave the data of the scan untouched: the  *)
(* character that enters Comment context (`#`, or the first `/` of `//`),  *)
(* the `/` of `/*` that enters DocBlock context, every character consumed  *)
(* in Comment or DocBlock context and the end of line that leaves Comment  *)
(* context change neither the token stream nor the buffer.                 *)
(***************************************************************************)
InOrIntoComment ==
    /\ pc = "tokenize"
    /\ tok.i < Len(document)
    /\ \/ tok.context \in {"Comment", "DocBlock"}
       \/ tok.context = NONE /\ cur = "#"
       \/ tok.context = NONE /\ cur = "/" /\ peek \in {"/", "*"}

C22_CommentsLeaveDataUntouched ==
    [][InOrIntoComment =>
          /\ tok'.stream = tok.stream
          /\ tok'.buffer = tok.buffer
          /\ tok'.context \in {"Comment", "DocBlock", NONE}
          /\ (tok.context = "Comment" /\ is_eol_of(cur)) => tok'.context = NONE
          /\ (tok.context = NONE /\ cur = "#") => tok'.context = "Comment"]_vars

C22_Witness ==
    /\ pc = "tokenized"
    /\ document = <<"a", "#", "\n", "b">>
    /\ result.stream = <<Identifier(<<"a", "b">>)>>

(***************************************************************************)
(* C23.  A flush of an empty buffer emits no token, whatever the keyword   *)
(* set: a space, CR, LF, a punctuator or an arithmetic operator seen in    *)
(* context None with an empty buffer adds to the stream only the token of  *)
(* the character itself (none for white space).                            *)
(***************************************************************************)
C23_EmptyFlushEmitsNothing ==
    [][(FlushDue /\ tok.i < Len(document) /\ tok.buffer = <<>>) =>
          tok'.stream = tok.stream \o Trigger]_vars

(***************************************************************************)
(* C24.  compose terminates on every finite token stream: every iteration  *)
(* of the loop consumes one token, the step after the last token returns   *)
(* a Composition, and every nested invocation of process is on a strictly  *)
(* shorter token sequence.  For bracket-balanced input the recursion depth *)
(* equals the maximum bracket-nesting depth of the input, which is the     *)
(* maximum nesting depth of the Encapsulations of the result.              *)
(***************************************************************************)
Max(S) == CHOOSE x \in S : \A y \in S : y <= x

MaxNesting(q) == Max({Depth(q, n) : n \in 0..Len(q)})

RECURSIVE TreeDepth(_)
TreeDepth(composition) ==
    Max({0} \cup {1 + TreeDepth(composition[k].composition) :
                      k \in {j \in 1..Len(composition) : IsBlock(composition[j])}})

RECURSIVE StrictlyShorter(_, _)
StrictlyShorter(ld, stream) ==
    \A b \in nested_invocations(ld, stream) :
        Len(b) < Len(stream) /\ StrictlyShorter(ld, b)

C24_TerminatesAtNestingDepth ==
    [][/\ pc = "compose" =>
             /\ \/ comp.pos < Len(input) /\ comp'.pos = comp.pos + 1
                \/ comp.pos = Len(input) /\ pc' = "done"
       /\ pc' = "done" =>
             /\ composed'.status = "ok"
             /\ StrictlyShorter(langdef, input)
             /\ Balanced(input) =>
                   /\ recursion_depth(langdef, input) = MaxNesting(input)
                   /\ TreeDepth(composed'.composition) = MaxNesting(input)]_vars

C24_Witness ==
    /\ pc = "done"
    /\ Balanced(input)
    /\ MaxNesting(input) = 2
    /\ recursion_depth(langdef, input) = 2
    /\ TreeDepth(composed.composition) = 2

(***************************************************************************)
(* C25.  At every step of process: when the depth stack is not empty a     *)
(* bracket context is open and every entry of the stack is that open       *)
(* context (the kind of the outermost opener, not of the nested bracket    *)
(* that was pushed for); when no context is open the stack is empty.       *)
(***************************************************************************)
C25_DepthStackHoldsOpenContext ==
    /\ comp.indentations # <<>> => comp.context # NONE
    /\ \A k \in 1..Len(comp.indentations) :
          comp.indentations[k] = comp.context
    /\ comp.context = NONE => comp.indentations = <<>>

C25_Witness ==
    /\ pc = "compose"
    /\ comp.context = "Square"
    /\ comp.indentations = <<"Square", "Square">>
    /\ comp.buffer[Len(comp.buffer)] = Punctuator("(")

(***************************************************************************)
(* C26.  For every token stream, balanced or not, the tokens of the        *)
(* composed tree read in order (Statements, SingleTokens, the bodies of    *)
(* Encapsulations recursively), with the Punctuators left out, are exactly *)
(* the tokens of the input that are not Punctuators, in the same order and *)
(* as many times.                                                          *)
(***************************************************************************)
NotPunctuator(t) == t.type # "Punctuator"

C26_NonPunctuatorsKept ==
    pc = "done" =>
        SelectSeq(TreeTokens(composed.composition), NotPunctuator)
            = SelectSeq(input, NotPunctuator)

C26_Witness ==
    /\ pc = "done"
    /\ ~Balanced(input)
    /\ Len(SelectSeq(input, NotPunctuator)) >= 2
    /\ Literal(<<"1">>) \in Range(input)
    /\ KeywordElse \in Range(input)
    /\ \E k \in 1..Len(composed.composition) :
          /\ IsBlock(composed.composition[k])
          /\ composed.composition[k].composition # <<>>

(***************************************************************************)
(* C27.  The quote that enters Quotes context from context None changes    *)
(* neither the buffer nor the token stream: the Literal emitted at the     *)
(* closing quote is the text buffered before the opening quote followed by *)
(* the quoted characters, and `ab"cd"` is the single token                 *)
(* Literal("abcd").                                                        *)
(***************************************************************************)
C27_OpeningQuoteKeepsBuffer ==
    [][/\ (pc = "tokenize" /\ tok.i < Len(document)
             /\ tok.context = NONE /\ cur = "\"") =>
             /\ tok'.context = "Quotes"
             /\ tok'.buffer = tok.buffer
             /\ tok'.stream = tok.stream
       /\ (pc' = "tokenized" /\ document = QuoteJoinDoc) =>
             result'.stream = <<Literal(<<"a", "b", "c", "d">>)>>]_vars

C27_Witness ==
    /\ pc = "tokenized"
    /\ document = QuoteJoinDoc
    /\ tok.context = NONE
    /\ Len(result.stream) = 1

====
